---- MODULE Spec2Model ----
(***************************************************************************)
(* NebuLight (nebulight.py): a job table in an SQLite file, worker         *)
(* processes (`start`) that pull queued jobs and run them, and the         *)
(* administrative commands `add`, `add_list`, `queue` and `hold`.          *)
(*                                                                         *)
(* Every SQL statement (with its commit) is one atomic step of the store;  *)
(* the steps of different processes interleave freely.  Time is counted in *)
(* ticks of 0.1 minute, the worker's polling interval.                     *)
(***************************************************************************)
EXTENDS Integers, Sequences, FiniteSets, TLC

\* ---------------------------------------------------------------- bounds
MaxJobs == 2
NumWorkers == 2
MaxFailuresBound == 2
MaxIdleMinutes == 1
MaxTime == 11
MaxFlags == 2

\* ------------------------------------------------------------- constants
QUEUED == "queued"
PROCESSING == "processing"
DONE == "done"
FAILED == "failed"
HOLD == "hold"
ALL == {QUEUED, PROCESSING, DONE, FAILED, HOLD}

\* time.sleep(IDLE_CHECK_INTERVAL_MIN * 60): one tick of 0.1 minute
IDLE_CHECK_INTERVAL_TICKS == 1
\* timedelta(seconds=max_idle_minutes * 60): ten ticks per minute
TICKS_PER_MINUTE == 10

Workers == 1..NumWorkers
\* the host column of a row that was never claimed (SQL NULL)
NoHost == 0
\* the commands of the jobs: exits 0, exits non-zero, cannot be launched
Commands == {"true", "false", "nosuch"}

VARIABLES
    db_exists,         \* os.path.exists(args.db_name)
    jobs,              \* the jobs table: row job_id is jobs[job_id]
    now,               \* datetime.datetime.now(), in ticks
    max_failures,      \* args.max_failures, shared by all workers
    max_idle_minutes,  \* args.max_idle_minutes of each worker
    pc,                \* each worker's position in start / _pull_and_process
    num_queued,        \* start: num_queued
    end_idle_time,     \* start: end_idle_time
    wake,              \* when the worker's time.sleep returns
    id,                \* _pull_and_process: id (0 when none)
    cmd,               \* _pull_and_process: cmd
    tries,             \* _pull_and_process: tries
    rc,                \* _pull_and_process: rc
    admin,             \* position of the queue / hold command in _change_status
    runs               \* history: Popen calls per job since its last bulk rewrite

vars == <<db_exists, jobs, now, max_failures, max_idle_minutes, pc, num_queued,
          end_idle_time, wake, id, cmd, tries, rc, admin, runs>>

storeVars == <<db_exists, jobs, runs>>
localVars == <<id, cmd, tries, rc>>
loopVars == <<num_queued, end_idle_time, wake>>
argVars == <<max_failures, max_idle_minutes>>

\* ---------------------------------------------------------------- store
JobIds == 1..Len(jobs)

\* SELECT * FROM jobs WHERE status=? : the matching rows, in rowid order
QueuedIds == {j \in JobIds : jobs[j].status = QUEUED}

Min(S) == CHOOSE x \in S : \A y \in S : x <= y

\* _check_for_queued_jobs: len(rows)
CheckForQueuedJobs == Cardinality(QueuedIds)

\* the insert writing 1 into tries
AddSingleJobTriesOne(table, c, status) ==
    Append(table, [cmd |-> c, status |-> status, tries |-> 1, host |-> NoHost])

\* insert into jobs(cmd, status, tries) values (?, ?, 0): job_id, the INTEGER
\* PRIMARY KEY, is the next rowid (no row is ever deleted), host is NULL
AddSingleJob(table, c, status) ==
    Append(table, [cmd |-> c, status |-> status, tries |-> 0, host |-> NoHost])

\* add_list: for job in lines: _add_single_job(c, job, QUEUED)
RECURSIVE AddLines(_, _)
AddLines(table, lines) ==
    IF lines = <<>> THEN table
    ELSE AddLines(AddSingleJob(table, Head(lines), QUEUED), Tail(lines))

\* ORDER BY status: the statuses compare as strings
StatusRank(status) ==
    CASE status = DONE -> 1
      [] status = FAILED -> 2
      [] status = HOLD -> 3
      [] status = PROCESSING -> 4
      [] status = QUEUED -> 5

\* the row (job_id, cmd, status, tries, host) of job j
Row(table, j) ==
    [job_id |-> j, cmd |-> table[j].cmd, status |-> table[j].status,
     tries |-> table[j].tries, host |-> table[j].host]

\* SELECT * FROM jobs ORDER BY status, fetchall: the rows of the jobs in S by
\* status and, within a status, by rowid
RECURSIVE OrderByStatus(_, _)
OrderByStatus(table, S) ==
    IF S = {} THEN <<>>
    ELSE LET j == CHOOSE x \in S : \A y \in S :
                      \/ StatusRank(table[x].status) < StatusRank(table[y].status)
                      \/ /\ StatusRank(table[x].status) = StatusRank(table[y].status)
                         /\ x <= y
         IN <<Row(table, j)>> \o OrderByStatus(table, S \ {j})

\* the listing status(args) reads before it prints
Snapshot(table) == OrderByStatus(table, DOMAIN table)

\* the status UPDATE also resetting tries
SetStatusResetTries(table, j, status) ==
    [table EXCEPT ![j].status = status, ![j].tries = 0]

\* UPDATE jobs SET status=? WHERE job_id=?
SetStatus(table, j, status) ==
    [table EXCEPT ![j].status = status]

\* UPDATE jobs SET status=?, tries=?, host=? WHERE job_id=?
SetClaim(table, j, status, t, host) ==
    [table EXCEPT ![j].status = status, ![j].tries = t, ![j].host = host]

\* the bulk UPDATE without its WHERE clause
BulkUpdateNoWhere(table, mode, selector) ==
    [j \in DOMAIN table |-> [table[j] EXCEPT !.status = mode, !.tries = 0]]

\* UPDATE jobs SET status='{mode}', tries=0 WHERE status IN {selector}
BulkUpdate(table, mode, selector) ==
    [j \in DOMAIN table |->
        IF table[j].status \in selector
        THEN [table[j] EXCEPT !.status = mode, !.tries = 0]
        ELSE table[j]]

\* _host() with the gpu id: the identity of worker w
Host(w) == w

\* the queue / hold command: not running, or waiting at the prompt of
\* _change_status with its mode and its selector
AdminIdle == [pc |-> "idle", mode |-> "", selector |-> {}]

Init ==
    /\ db_exists = FALSE
    /\ jobs = <<>>
    /\ now = 0
    /\ max_failures \in 1..MaxFailuresBound
    /\ max_idle_minutes = [w \in Workers |-> 0]
    /\ pc = [w \in Workers |-> "start"]
    /\ num_queued = [w \in Workers |-> 0]
    /\ end_idle_time = [w \in Workers |-> 0]
    /\ wake = [w \in Workers |-> 0]
    /\ id = [w \in Workers |-> 0]
    /\ cmd = [w \in Workers |-> ""]
    /\ tries = [w \in Workers |-> 0]
    /\ rc = [w \in Workers |-> 0]
    /\ admin = AdminIdle
    /\ runs = <<>>

\* add: one job from the command line
Add ==
    /\ Len(jobs) < MaxJobs
    /\ \E c \in Commands :
        /\ jobs' = AddSingleJob(jobs, c, QUEUED)
        /\ runs' = Append(runs, 0)
    /\ db_exists' = TRUE
    /\ UNCHANGED <<now, argVars, pc, loopVars, localVars, admin>>

\* add_list: the lines of a job file, inserted in one transaction
AddList ==
    \E n \in 1..(MaxJobs - Len(jobs)) :
        \E lines \in [1..n -> Commands] :
            /\ jobs' = AddLines(jobs, lines)
            /\ runs' = runs \o [i \in 1..n |-> 0]
            /\ db_exists' = TRUE
            /\ UNCHANGED <<now, argVars, pc, loopVars, localVars, admin>>

\* ---------------------------------------------------------------- worker
\* timedelta(seconds=args.max_idle_minutes * 60), in ticks
IdleTicks(w) == max_idle_minutes[w] * TICKS_PER_MINUTE

\* the loop test written with `and`
LoopConditionAnd(w) == num_queued[w] > 0 /\ now < end_idle_time[w]

\* the loop test with the deadline included
LoopConditionInclusive(w) == num_queued[w] > 0 \/ now <= end_idle_time[w]

\* while num_queued > 0 or datetime.datetime.now() < end_idle_time
LoopCondition(w) == num_queued[w] > 0 \/ now < end_idle_time[w]

\* the test of tries written with > : one run too many
BudgetExhaustedStrict(t) == t > max_failures

\* if tries >= args.max_failures
BudgetExhausted(t) == t >= max_failures

\* subprocess.Popen(shlex.split(cmd)) raises OSError: the command cannot be launched
PopenRaises(c) == c = "nosuch"

\* proc.poll() once the command has ended
Poll(c) == IF c = "true" THEN 0 ELSE 1

\* rc initialised to 0: a launch failure would count as success
ReturnCodeUnset(c) == IF PopenRaises(c) THEN 0 ELSE Poll(c)

\* rc = 1; try: ... rc = proc.poll() ... except OSError: rc stays 1
ReturnCode(c) == IF PopenRaises(c) THEN 1 ELSE Poll(c)

\* a failed run that writes nothing: the job stays PROCESSING
FinalStatusUnwritten(r) == IF r = 0 THEN DONE ELSE PROCESSING

\* a failed run written as FAILED instead of QUEUED
FinalStatusFailed(r) == IF r = 0 THEN DONE ELSE FAILED

\* if rc == 0: status DONE, else status QUEUED
FinalStatus(r) == IF r = 0 THEN DONE ELSE QUEUED

ClearLocals(w) ==
    /\ id' = [id EXCEPT ![w] = 0]
    /\ cmd' = [cmd EXCEPT ![w] = ""]
    /\ tries' = [tries EXCEPT ![w] = 0]
    /\ rc' = [rc EXCEPT ![w] = 0]

\* start, up to the loop: the assertion, the first count, the first deadline
Start(w) ==
    /\ pc[w] = "start"
    /\ IF db_exists
       THEN /\ num_queued' = [num_queued EXCEPT ![w] = CheckForQueuedJobs]
            /\ end_idle_time' = [end_idle_time EXCEPT ![w] = now + IdleTicks(w)]
            /\ pc' = [pc EXCEPT ![w] = "while"]
       ELSE /\ pc' = [pc EXCEPT ![w] = "aborted"]
            /\ UNCHANGED <<num_queued, end_idle_time>>
    /\ UNCHANGED <<storeVars, now, argVars, wake, localVars, admin>>

\* the loop test and the branch on num_queued
While(w) ==
    /\ pc[w] = "while"
    /\ IF LoopCondition(w)
       THEN IF num_queued[w] > 0
            THEN /\ pc' = [pc EXCEPT ![w] = "pull"]
                 /\ wake' = wake
            ELSE /\ pc' = [pc EXCEPT ![w] = "sleep"]
                 /\ wake' = [wake EXCEPT ![w] = now + IDLE_CHECK_INTERVAL_TICKS]
       ELSE /\ pc' = [pc EXCEPT ![w] = "exited"]
            /\ wake' = wake
    /\ UNCHANGED <<storeVars, now, argVars, num_queued, end_idle_time, localVars, admin>>

\* _pull_and_process: the SELECT, fetchone and the test of tries
Pull(w) ==
    /\ pc[w] = "pull"
    /\ IF QueuedIds = {}
       THEN /\ pc' = [pc EXCEPT ![w] = "return"]
            /\ UNCHANGED localVars
       ELSE LET j == Min(QueuedIds) IN
            /\ id' = [id EXCEPT ![w] = j]
            /\ cmd' = [cmd EXCEPT ![w] = jobs[j].cmd]
            /\ tries' = [tries EXCEPT ![w] = jobs[j].tries]
            /\ rc' = rc
            /\ pc' = [pc EXCEPT ![w] =
                   IF BudgetExhausted(jobs[j].tries) THEN "mark_failed" ELSE "claim"]
    /\ UNCHANGED <<storeVars, now, argVars, loopVars, admin>>

\* _pull_and_process: the UPDATE to FAILED, and the return
MarkFailed(w) ==
    /\ pc[w] = "mark_failed"
    /\ jobs' = SetStatus(jobs, id[w], FAILED)
    /\ pc' = [pc EXCEPT ![w] = "return"]
    /\ ClearLocals(w)
    /\ UNCHANGED <<db_exists, runs, now, argVars, loopVars, admin>>

\* _pull_and_process: the UPDATE to PROCESSING with tries + 1 and the host
Claim(w) ==
    /\ pc[w] = "claim"
    /\ jobs' = SetClaim(jobs, id[w], PROCESSING, tries[w] + 1, Host(w))
    /\ pc' = [pc EXCEPT ![w] = "run"]
    /\ UNCHANGED <<db_exists, runs, now, argVars, loopVars, localVars, admin>>

\* _pull_and_process: the command runs to its end
Run(w) ==
    /\ pc[w] = "run"
    /\ rc' = [rc EXCEPT ![w] = ReturnCode(cmd[w])]
    /\ runs' = [runs EXCEPT ![id[w]] = @ + 1]
    /\ pc' = [pc EXCEPT ![w] = "finish"]
    /\ UNCHANGED <<db_exists, jobs, now, argVars, loopVars, id, cmd, tries, admin>>

\* _pull_and_process: the UPDATE to DONE or back to QUEUED, and the return
Finish(w) ==
    /\ pc[w] = "finish"
    /\ jobs' = SetStatus(jobs, id[w], FinalStatus(rc[w]))
    /\ pc' = [pc EXCEPT ![w] = "return"]
    /\ ClearLocals(w)
    /\ UNCHANGED <<db_exists, runs, now, argVars, loopVars, admin>>

\* the loop going on after _pull_and_process with the deadline it had
ReturnKeepDeadline(w) ==
    /\ pc[w] = "return"
    /\ num_queued' = [num_queued EXCEPT ![w] = CheckForQueuedJobs]
    /\ pc' = [pc EXCEPT ![w] = "while"]
    /\ UNCHANGED <<storeVars, now, argVars, end_idle_time, wake, localVars, admin>>

\* start: the new deadline after _pull_and_process, and the next count
Return(w) ==
    /\ pc[w] = "return"
    /\ end_idle_time' = [end_idle_time EXCEPT ![w] = now + IdleTicks(w)]
    /\ num_queued' = [num_queued EXCEPT ![w] = CheckForQueuedJobs]
    /\ pc' = [pc EXCEPT ![w] = "while"]
    /\ UNCHANGED <<storeVars, now, argVars, wake, localVars, admin>>

\* start: time.sleep returns, and the next count
Wake(w) ==
    /\ pc[w] = "sleep"
    /\ now >= wake[w]
    /\ wake' = [wake EXCEPT ![w] = 0]
    /\ num_queued' = [num_queued EXCEPT ![w] = CheckForQueuedJobs]
    /\ pc' = [pc EXCEPT ![w] = "while"]
    /\ UNCHANGED <<storeVars, now, argVars, end_idle_time, localVars, admin>>

\* the `start` command is invoked again after a worker process has ended
Restart(w) ==
    /\ pc[w] \in {"exited", "aborted"}
    /\ pc' = [pc EXCEPT ![w] = "start"]
    /\ UNCHANGED <<storeVars, now, argVars, loopVars, localVars, admin>>

\* the clock advances
Tick ==
    /\ now < MaxTime
    /\ now' = now + 1
    /\ UNCHANGED <<storeVars, argVars, pc, loopVars, localVars, admin>>

\* ----------------------------------------------------------- queue / hold
\* the filter flags each sub-parser declares
ParserFlags(mode) ==
    IF mode = QUEUED
    THEN {"all", "done", "failed", "hold", "processing"}
    ELSE {"all", "done", "failed", "hold", "processing", "queued"}

\* _change_status: reading args.queued, which `queue` does not declare, raises
SelectorRaises(flags, mode) ==
    /\ flags \cap {"all", "done", "failed", "hold", "processing"} = {}
    /\ "queued" \notin ParserFlags(mode)

\* _change_status: the selector, the first flag of the elif chain that is set
Selector(flags, mode) ==
    IF "all" \in flags THEN ALL
    ELSE IF "done" \in flags THEN {DONE}
    ELSE IF "failed" \in flags THEN {FAILED}
    ELSE IF "hold" \in flags THEN {HOLD}
    ELSE IF "processing" \in flags THEN {PROCESSING}
    ELSE IF "queued" \in flags THEN {QUEUED}
    ELSE ALL

\* the answers typed at the prompt, and str.lower on them
Answers == {"yes", "YES", "no"}
Lower(s) == IF s = "YES" THEN "yes" ELSE s

\* status(args) returns on a store: no database file, or a non-empty table in
\* which every row has a host (max() of no rows raises ValueError, len(None)
\* of a row without host raises TypeError)
StatusReturnsOn(exists, table) ==
    \/ ~exists
    \/ /\ Len(table) > 0
       /\ \A j \in DOMAIN table : table[j].host # NoHost

StatusReturns == StatusReturnsOn(db_exists, jobs)

\* the exception status(args) raises on a table it cannot print
StatusError(table) == IF Len(table) = 0 THEN "ValueError" ELSE "TypeError"

\* the queue / hold command ended by an exception
AdminRaised(error, mode) == [pc |-> error, mode |-> mode, selector |-> {}]

\* _change_status up to the prompt: the first status(args) and the selector
ChangeStatusBegin(mode, flags) ==
    /\ admin = AdminIdle
    /\ admin' = IF ~StatusReturns
                THEN AdminRaised(StatusError(jobs), mode)
                ELSE IF SelectorRaises(flags, mode)
                THEN AdminRaised("AttributeError", mode)
                ELSE [pc |-> "prompt", mode |-> mode,
                      selector |-> Selector(flags, mode)]
    /\ UNCHANGED <<storeVars, now, argVars, pc, loopVars, localVars>>

\* the flags given on the command line
FlagSets(mode) == {f \in SUBSET ParserFlags(mode) : Cardinality(f) <= MaxFlags}

AdminBegin ==
    \E mode \in {QUEUED, HOLD} :
        \E flags \in FlagSets(mode) : ChangeStatusBegin(mode, flags)

\* the answer tested for truth: any non-empty answer confirms
ConfirmedTruthy(answer) == answer # ""

\* if confirm.lower() == 'yes'
Confirmed(answer) == Lower(answer) = "yes"

\* _change_status from the prompt: the answer, the UPDATE and the second
\* status(args)
ChangeStatusConfirm(answer) ==
    /\ admin.pc = "prompt"
    /\ IF Confirmed(answer)
       THEN /\ jobs' = BulkUpdate(jobs, admin.mode, admin.selector)
            /\ runs' = [j \in DOMAIN runs |->
                   IF jobs[j].status \in admin.selector THEN 0 ELSE runs[j]]
            /\ db_exists' = TRUE
       ELSE UNCHANGED storeVars
    /\ admin' = IF StatusReturnsOn(db_exists', jobs')
                THEN AdminIdle
                ELSE AdminRaised(StatusError(jobs'), admin.mode)
    /\ UNCHANGED <<now, argVars, pc, loopVars, localVars>>

AdminConfirm == \E answer \in Answers : ChangeStatusConfirm(answer)

\* the exception ends the command: the traceback is printed, the shell is back
AdminAbort ==
    /\ admin.pc \in {"ValueError", "TypeError", "AttributeError"}
    /\ admin' = AdminIdle
    /\ UNCHANGED <<storeVars, now, argVars, pc, loopVars, localVars>>

\* ------------------------------------------------------------------ specs
\* the steps of _pull_and_process and of the loop around it
WorkerStep(w) ==
    \/ Start(w)
    \/ While(w)
    \/ Pull(w)
    \/ MarkFailed(w)
    \/ Claim(w)
    \/ Run(w)
    \/ Finish(w)
    \/ Return(w)
    \/ Restart(w)

\* workers that exit as soon as nothing is queued (max_idle_minutes = 0) and
\* are started again, with the administrative commands
Next ==
    \/ Add
    \/ AddList
    \/ \E w \in Workers : WorkerStep(w)
    \/ AdminBegin
    \/ AdminConfirm
    \/ AdminAbort

Spec == Init /\ [][Next]_vars

\* the same workers without queue / hold
NextWorkers ==
    \/ Add
    \/ AddList
    \/ \E w \in Workers : WorkerStep(w)

SpecWorkers == Init /\ [][NextWorkers]_vars

\* one worker, without queue / hold
NextSingle ==
    \/ Add
    \/ AddList
    \/ WorkerStep(1)

SpecSingle == Init /\ [][NextSingle]_vars

\* one worker with queue / hold
NextSingleAdmin ==
    \/ Add
    \/ AddList
    \/ WorkerStep(1)
    \/ AdminBegin
    \/ AdminConfirm
    \/ AdminAbort

SpecSingleAdmin == Init /\ [][NextSingleAdmin]_vars

\* one worker that waits for new jobs, with the clock
InitLoop ==
    /\ db_exists = FALSE
    /\ jobs = <<>>
    /\ now = 0
    /\ max_failures \in 1..MaxFailuresBound
    /\ max_idle_minutes \in [Workers -> 0..MaxIdleMinutes]
    /\ \A w \in Workers : w # 1 => max_idle_minutes[w] = 0
    /\ pc = [w \in Workers |-> "start"]
    /\ num_queued = [w \in Workers |-> 0]
    /\ end_idle_time = [w \in Workers |-> 0]
    /\ wake = [w \in Workers |-> 0]
    /\ id = [w \in Workers |-> 0]
    /\ cmd = [w \in Workers |-> ""]
    /\ tries = [w \in Workers |-> 0]
    /\ rc = [w \in Workers |-> 0]
    /\ admin = AdminIdle
    /\ runs = <<>>

NextLoop ==
    \/ Add
    \/ AddList
    \/ WorkerStep(1)
    \/ Wake(1)
    \/ Tick

SpecLoop == InitLoop /\ [][NextLoop]_vars

\* one run of `start`: the loop and _pull_and_process, to the end of the process
LoopStep(w) ==
    \/ Start(w)
    \/ While(w)
    \/ Pull(w)
    \/ MarkFailed(w)
    \/ Claim(w)
    \/ Run(w)
    \/ Finish(w)
    \/ Return(w)

\* the clock advances while the worker is in time.sleep
TickAsleep ==
    /\ pc[1] = "sleep"
    /\ now < wake[1]
    /\ now' = now + 1
    /\ UNCHANGED <<storeVars, argVars, pc, loopVars, localVars, admin>>

\* jobs are enqueued, then one worker is started and runs to its end with no
\* further add, queue or hold; every command ends, the worker is scheduled
\* and its sleep returns
NextLive ==
    \/ (pc[1] = "start" /\ Add)
    \/ (pc[1] = "start" /\ AddList)
    \/ LoopStep(1)
    \/ Wake(1)
    \/ TickAsleep

SpecLive ==
    /\ InitLoop
    /\ [][NextLive]_vars
    /\ WF_vars(LoopStep(1))
    /\ WF_vars(Wake(1))
    /\ WF_vars(TickAsleep)

\* queue --processing: the jobs a worker died on are made QUEUED again
RequeueBegin == ChangeStatusBegin(QUEUED, {"processing"})

\* workers started once each, while `queue --processing` is used
NextRequeue ==
    \/ Add
    \/ \E w \in Workers : LoopStep(w)
    \/ RequeueBegin
    \/ AdminConfirm
    \/ AdminAbort

SpecRequeue == Init /\ [][NextRequeue]_vars

\* ----------------------------------------------------------------- claims
\* the worker is between its UPDATE to PROCESSING and its final UPDATE
Executing(w) == pc[w] \in {"run", "finish"}

\* the command of job j never ends with exit code 0
AlwaysFails(j) == jobs[j].cmd \in {"false", "nosuch"}

\* C1: no two workers ever claim the same QUEUED job: while one worker has
\* moved a job to PROCESSING and is executing it, no other worker has claimed
\* that job too
C1_NoDoubleClaim ==
    \A v, w \in Workers :
        (v # w /\ Executing(v) /\ Executing(w)) => id[v] # id[w]

ExpectedAfterRun(c) == IF c = "true" THEN DONE ELSE QUEUED

\* C3: when the command of a claimed job finishes, exit code 0 sets the status
\* to DONE and a non-zero exit code or a launch failure sets it back to QUEUED;
\* tries keeps the value written by the claim, and a job that succeeded on its
\* first run is DONE with tries = 1
C3_Completion ==
    /\ [][\A w \in Workers :
            (pc[w] = "finish" /\ pc'[w] = "return") =>
                /\ jobs'[id[w]].status = ExpectedAfterRun(jobs[id[w]].cmd)
                /\ jobs'[id[w]].tries = jobs[id[w]].tries
                /\ jobs'[id[w]].tries = tries[w] + 1]_vars
    /\ [](\A j \in JobIds :
            (jobs[j].status = DONE /\ runs[j] = 1) => jobs[j].tries = 1)

\* C3 witness: one job succeeded on its first run and is DONE with tries 1,
\* another could not be launched and is QUEUED again with the claim's tries
C3_Witness ==
    \E i, j \in JobIds :
        /\ jobs[i].cmd = "true" /\ jobs[i].status = DONE
        /\ jobs[i].tries = 1 /\ runs[i] = 1
        /\ jobs[j].cmd = "nosuch" /\ jobs[j].status = QUEUED
        /\ jobs[j].tries = 1 /\ runs[j] = 1

Rewrite == \E answer \in {"yes", "YES"} : ChangeStatusConfirm(answer)

C5_FailedOnlyAtBudget ==
    \A j \in JobIds : jobs[j].status = FAILED => jobs[j].tries >= max_failures

\* C6: between two resets by queue / hold, the command of a job is executed
\* at most max_failures times
C6_RunsWithinBudget ==
    \A j \in JobIds : runs[j] <= max_failures

\* C7: a confirmed bulk rewrite with filter F and target T (QUEUED or HOLD)
\* sets status to T and tries to 0 for exactly the jobs whose status is in F;
\* the other jobs keep status and tries, and no job's id, command or host
\* changes
C7_BulkRewriteFrame ==
    [][Rewrite =>
          /\ admin.mode \in {QUEUED, HOLD}
          /\ DOMAIN jobs' = DOMAIN jobs
          /\ \A j \in DOMAIN jobs :
                /\ jobs'[j].cmd = jobs[j].cmd
                /\ jobs'[j].host = jobs[j].host
                /\ IF jobs[j].status \in admin.selector
                   THEN jobs'[j].status = admin.mode /\ jobs'[j].tries = 0
                   ELSE /\ jobs'[j].status = jobs[j].status
                        /\ jobs'[j].tries = jobs[j].tries]_vars

\* C7 witness: after a rewrite of the FAILED jobs, a job that had failed is
\* QUEUED with tries 0 next to a DONE job that kept its tries
C7_Witness ==
    /\ admin = AdminIdle
    /\ \E i, j \in JobIds :
        /\ jobs[i].cmd = "false" /\ jobs[i].status = QUEUED
        /\ jobs[i].tries = 0 /\ jobs[i].host # NoHost /\ runs[i] = 0
        /\ jobs[j].status = DONE /\ jobs[j].tries = 1

\* C8: the worker loop exits only when its last count of QUEUED jobs is 0 and
\* the time is at or past the idle deadline; with a count above 0 it goes on
\* to pull a job, whatever the deadline
C8_LoopExit ==
    [][\A w \in Workers :
          /\ (pc[w] # "exited" /\ pc'[w] = "exited") =>
                 (pc[w] = "while" /\ num_queued[w] = 0 /\ now >= end_idle_time[w])
          /\ (pc[w] = "while" /\ num_queued[w] > 0 /\ pc'[w] # "while") =>
                 pc'[w] = "pull"]_vars

\* C8 witness: a worker with max_idle_minutes = 1 has slept, found nothing and
\* left its loop at the deadline, after it had processed a job
C8_Witness ==
    /\ pc[1] = "exited"
    /\ max_idle_minutes[1] = 1
    /\ now >= end_idle_time[1]
    /\ end_idle_time[1] > TICKS_PER_MINUTE
    /\ \E j \in JobIds : jobs[j].status = DONE

\* C9: once a job is DONE, no worker step changes its status or tries
C9_DoneIsTerminal ==
    [][\A j \in DOMAIN jobs :
          jobs[j].status = DONE =>
              (jobs'[j].status = DONE /\ jobs'[j].tries = jobs[j].tries)]_vars

\* the status changes of job j in a step, as pairs <<old, new>>
StatusChanges ==
    {<<jobs[j].status, jobs'[j].status>> :
        j \in {k \in DOMAIN jobs : jobs'[k].status # jobs[k].status}}

C11_NoFlagSelectsAll ==
    [][/\ \A mode \in {QUEUED, HOLD} :
             (jobs # <<>> /\ StatusReturns /\ ChangeStatusBegin(mode, {})) =>
                 (admin'.pc = "prompt" /\ admin'.selector = ALL)
       /\ (Rewrite /\ admin.selector = ALL) =>
             \A j \in DOMAIN jobs :
                 jobs'[j].status = admin.mode /\ jobs'[j].tries = 0]_vars

\* the jobs a step has added
NewIds == (DOMAIN jobs') \ (DOMAIN jobs)

Attempting(w) == pc[w] \in {"pull", "mark_failed", "claim", "run", "finish"}

\* C13: every call of _pull_and_process, whatever its outcome (a run that
\* succeeded or failed, a job marked FAILED, nothing pulled), comes back to
\* the loop through the reset of the deadline to now + max_idle_minutes; the
\* deadline then stays until the next call, and the worker exits only at or
\* after it
C13_DeadlineReset ==
    [][\A w \in Workers :
          /\ (Attempting(w) /\ pc'[w] # pc[w]) =>
                 /\ Attempting(w)' \/ pc'[w] = "return"
                 /\ end_idle_time'[w] = end_idle_time[w]
          /\ (pc[w] = "return" /\ pc'[w] # "return") =>
                 /\ pc'[w] = "while"
                 /\ end_idle_time'[w] = now + max_idle_minutes[w] * TICKS_PER_MINUTE
          /\ pc[w] \in {"while", "sleep"} =>
                 end_idle_time'[w] = end_idle_time[w]
          /\ (pc[w] # "exited" /\ pc'[w] = "exited") =>
                 now >= end_idle_time[w]]_vars

\* C13 witness: with max_idle_minutes = 1 the worker marked a job FAILED
\* after the clock had advanced, and exited a full minute later
C13_Witness ==
    /\ pc[1] = "exited"
    /\ max_idle_minutes[1] = 1
    /\ end_idle_time[1] > TICKS_PER_MINUTE
    /\ now = end_idle_time[1]
    /\ \E j \in JobIds : jobs[j].status = FAILED

\* C14: a worker with max_idle_minutes = 0 started on a store in which no job
\* is QUEUED counts 0 jobs, sets its deadline to the present time, and leaves
\* the loop at the first test: it pulls no job, does not sleep, and writes to
\* no job
C14_IdleZeroExits ==
    [][\A w \in Workers :
          max_idle_minutes[w] = 0 =>
              /\ (pc[w] = "start" /\ pc'[w] # "start" /\ db_exists /\ QueuedIds = {}) =>
                     /\ pc'[w] = "while"
                     /\ num_queued'[w] = 0
                     /\ end_idle_time'[w] = now
                     /\ jobs' = jobs
              /\ (pc[w] = "while" /\ pc'[w] # "while" /\ num_queued[w] = 0) =>
                     /\ pc'[w] = "exited"
                     /\ wake'[w] = wake[w]
                     /\ id'[w] = 0
                     /\ jobs' = jobs]_vars

\* C14 witness: a worker with max_idle_minutes = 0 has exited, at the time of
\* its deadline, on a store of two jobs none of which is QUEUED
C14_Witness ==
    /\ pc[1] = "exited"
    /\ max_idle_minutes[1] = 0
    /\ Len(jobs) = 2
    /\ \A j \in JobIds : jobs[j].status \in {DONE, FAILED}
    /\ now > 0
    /\ end_idle_time[1] = now
    /\ wake[1] = 0

\* C15: queue / hold writes to the store only in the step that takes the
\* answer, and only when the answer is yes (in any case of letters); on any
\* other answer, and in every other step of the command, no job changes and
\* no job is added
C15_OnlyOnYes ==
    [][/\ \A answer \in Answers :
             (ChangeStatusConfirm(answer) /\ jobs' # jobs) =>
                 answer \in {"yes", "YES"}
       /\ (admin' # admin /\ admin.pc # "prompt") => jobs' = jobs]_vars

\* C15 witness: the prompt is open on a rewrite that selects a job whose
\* tries is above 0, so that only the answer decides whether the job changes
C15_Witness ==
    /\ admin.pc = "prompt"
    /\ \E j \in JobIds :
          /\ jobs[j].status \in admin.selector
          /\ jobs[j].status # admin.mode
          /\ jobs[j].tries > 0

\* C16: queue / hold on a store with jobs, with flags whose selector matches
\* no job, runs to its end without an exception and leaves every job and the
\* number of jobs as they were
C16_NoMatchIsNoOp ==
    [][/\ \A mode \in {QUEUED, HOLD} : \A flags \in FlagSets(mode) :
             (/\ jobs # <<>>
              /\ ~SelectorRaises(flags, mode)
              /\ \A j \in JobIds : jobs[j].status \notin Selector(flags, mode)
              /\ ChangeStatusBegin(mode, flags)) =>
                 admin'.pc = "prompt"
       /\ \A answer \in Answers :
             (/\ jobs # <<>>
              /\ \A j \in JobIds : jobs[j].status \notin admin.selector
              /\ ChangeStatusConfirm(answer)) =>
                 (jobs' = jobs /\ admin' = AdminIdle)]_vars

C18_ClaimFrame ==
    [][\A w \in Workers :
          (pc[w] = "claim" /\ pc'[w] = "run") =>
              /\ DOMAIN jobs' = DOMAIN jobs
              /\ jobs[id[w]].status = QUEUED
              /\ jobs'[id[w]].status = PROCESSING
              /\ jobs'[id[w]].tries = jobs[id[w]].tries + 1
              /\ jobs'[id[w]].host = Host(w)
              /\ jobs'[id[w]].cmd = jobs[id[w]].cmd
              /\ \A j \in DOMAIN jobs : j # id[w] => jobs'[j] = jobs[j]]_vars

\* C19: with workers and queue / hold running side by side, also when a
\* PROCESSING job is made QUEUED again while its command runs, no job is
\* being executed by two workers at the same time
C19_NoConcurrentExecution ==
    \A j \in JobIds : Cardinality({w \in Workers : Executing(w) /\ id[w] = j}) <= 1

\* C20: a job that queue / hold has set to HOLD keeps status HOLD and tries 0
\* in every step that is not another confirmed rewrite, the completion write
\* of a worker that was running the job included
C20_HoldIsKept ==
    [][\A j \in DOMAIN jobs :
          (jobs[j].status = HOLD /\ jobs[j].tries = 0) =>
              \/ jobs'[j].status = HOLD /\ jobs'[j].tries = 0
              \/ Rewrite]_vars
====
